---- MODULE Spec2Model ----
(***************************************************************************)
(* A model of CassandraOnlineStore                                         *)
(* (feast_cassandra_online_store/cassandra_online_store.py).               *)
(*                                                                         *)
(* One store instance is a record of its four fields (_cluster, _session,  *)
(* _keyspace, _prepared_statements).  The database behind the driver is    *)
(* the variable db: a function from the fully-qualified names of the       *)
(* tables that exist to their rows.  Every public operation is one action; *)
(* its body is the operator of the same name, which threads a "machine"    *)
(* record m (the instance fields, the database, the calls made so far, the *)
(* pending exception) through the private methods the way the Python code  *)
(* calls them.                                                             *)
(***************************************************************************)
EXTENDS Integers, Sequences, FiniteSets, TLC

VARIABLES
    cluster,              \* self._cluster: None or Some(cluster)
    session,              \* self._session: None or Some(session)
    keyspace,             \* self._keyspace: None or the keyspace string
    prepared_statements,  \* self._prepared_statements: cache key -> handle
    db,                   \* the database: fq table name -> rows
    handles,              \* ghost: cache key -> handles session.prepare returned
    written,              \* ghost: what the successful writes of a view add up to
    last,                 \* the last operation: its arguments, calls and outcome
    other,                \* the fields of a second store instance of the process
    callers               \* the threads calling the instance at the same time

vars == <<cluster, session, keyspace, prepared_statements, db, handles,
          written, last, other, callers>>

(***************************************************************************)
(* Python values.  An Optional is None (the empty tuple) or Some(x).       *)
(***************************************************************************)
None == << >>
Some(x) == <<x>>
Get(o) == o[1]

\* Python truth value of an Optional[str] or Optional[List[str]].
Truthy(o) == o # None /\ Len(Get(o)) > 0

EmptyMap == [x \in {} |-> 0]

Range(s) == {s[i] : i \in DOMAIN s}

(***************************************************************************)
(* Error messages (lines 26-40) and the errors of the driver.              *)
(***************************************************************************)
E_CASSANDRA_UNEXPECTED_CONFIGURATION_CLASS ==
    "Unexpected configuration object (not a CassandraOnlineStoreConfig instance)"
E_CASSANDRA_NOT_CONFIGURED ==
    "Inconsistent Cassandra configuration: provide exactly one between 'hosts' and 'secure_bundle_path' and a 'keyspace'"
E_CASSANDRA_MISCONFIGURED ==
    "Inconsistent Cassandra configuration: provide either 'hosts' or 'secure_bundle_path', not both"
E_CASSANDRA_INCONSISTENT_AUTH ==
    "Username and password for Cassandra must be provided either both or none"

ConfigErrors == {E_CASSANDRA_UNEXPECTED_CONFIGURATION_CLASS,
                 E_CASSANDRA_NOT_CONFIGURED, E_CASSANDRA_MISCONFIGURED,
                 E_CASSANDRA_INCONSISTENT_AUTH}

\* What the driver raises: a call that fails (no host, timeout), a statement
\* on a table that does not exist.
E_DRIVER == "driver error"
E_INVALID_REQUEST == "invalid request"

DefaultPort == 9042

(***************************************************************************)
(* The machine record.                                                     *)
(*   fault   the number of the driver call that fails in this operation    *)
(*           (0: none); ncalls counts the driver calls made so far         *)
(*   entry   ghost: the batch entry being written (0 outside a batch)      *)
(***************************************************************************)
Machine(fault) ==
    [cluster |-> cluster, session |-> session, keyspace |-> keyspace,
     prepared_statements |-> prepared_statements, db |-> db,
     handles |-> handles, log |-> << >>, err |-> None, ret |-> None,
     fault |-> fault, ncalls |-> 0, entry |-> 0]

\* F applied to the value of v: v is computed once, whatever F does with it.
Then(v, F(_)) == CHOOSE r \in {F(x) : x \in {v}} : TRUE

Raise(m, e) == [m EXCEPT !.err = Some(e), !.ret = None]
Return(m, v) == [m EXCEPT !.ret = v]
Failed(m) == m.err # None

\* The next driver call is the one the fault names.
Faulty(m) == m.fault = m.ncalls + 1

Event(m, kind, arg, ok) ==
    [kind |-> kind, arg |-> arg, ok |-> ok, entry |-> m.entry]

\* The calls that go to the driver's session or cluster and may fail; the
\* other events of the log are the Cluster constructor, the progress
\* callback and (ghost) the session _get_session returned.
DriverCalls == {"connect", "prepare", "execute"}

Logged(m, kind, arg, ok) ==
    [m EXCEPT !.log = Append(@, Event(m, kind, arg, ok)),
              !.ncalls = IF kind \in DriverCalls THEN @ + 1 ELSE @]

(***************************************************************************)
(* _get_session (lines 141-202).                                           *)
(***************************************************************************)
\* Cluster(hosts, port=, auth_provider=) and Cluster(cloud=, auth_provider=).
NewCluster(contact, port, auth_provider) ==
    [contact |-> contact, port |-> port, auth_provider |-> auth_provider]

\* self._cluster.connect(keyspace): a driver call, which may fail.
connect(m, ks) ==
    IF Faulty(m)
    THEN Raise(Logged(m, "connect", [keyspace |-> ks], FALSE), E_DRIVER)
    ELSE LET s == [keyspace |-> ks, cluster |-> Get(m.cluster)]
             m1 == Logged(m, "connect", [keyspace |-> ks], TRUE)
         IN  [Logged(m1, "get_session", s, TRUE)
                 EXCEPT !.session = Some(s), !.ret = Some(s)]

\* Mutant: self._keyspace is assigned before the configuration is checked.
get_session_keyspace_first(m, config) ==
    LET online_store_config == config.online_store IN
    IF online_store_config.class # "CassandraOnlineStoreConfig"
    THEN Raise(m, E_CASSANDRA_UNEXPECTED_CONFIGURATION_CLASS)
    ELSE IF m.session # None
    THEN Return(Logged(m, "get_session", Get(m.session), TRUE), m.session)
    ELSE
      LET hosts == online_store_config.hosts
          secure_bundle_path == online_store_config.secure_bundle_path
          port == IF online_store_config.port # None
                     /\ Get(online_store_config.port) # 0
                  THEN Get(online_store_config.port) ELSE DefaultPort
          ks == online_store_config.keyspace
          username == online_store_config.username
          password == online_store_config.password
          db_directions == Truthy(hosts) \/ Truthy(secure_bundle_path)
      IN
      IF ~db_directions \/ ~Truthy(ks)
      THEN Raise([m EXCEPT !.keyspace = ks], E_CASSANDRA_NOT_CONFIGURED)
      ELSE IF Truthy(hosts) /\ Truthy(secure_bundle_path)
      THEN Raise([m EXCEPT !.keyspace = ks], E_CASSANDRA_MISCONFIGURED)
      ELSE IF (username = None) # (password = None)
      THEN Raise([m EXCEPT !.keyspace = ks], E_CASSANDRA_INCONSISTENT_AUTH)
      ELSE
        LET auth_provider ==
                IF username # None
                THEN Some([username |-> Get(username), password |-> Get(password)])
                ELSE None
            c == IF Truthy(hosts)
                 THEN NewCluster([hosts |-> Get(hosts)], Some(port), auth_provider)
                 ELSE NewCluster([cloud |-> Get(secure_bundle_path)], None,
                                 auth_provider)
            m1 == [Logged(m, "Cluster", c, TRUE) EXCEPT !.cluster = Some(c)]
            m2 == [m1 EXCEPT !.keyspace = ks]
        IN  Then(m2, LAMBDA m3 : connect(m3, Get(ks)))

\* Mutant: a session is opened whether or not the instance has one.
get_session_reconnect(m, config) ==
    LET online_store_config == config.online_store IN
    IF online_store_config.class # "CassandraOnlineStoreConfig"
    THEN Raise(m, E_CASSANDRA_UNEXPECTED_CONFIGURATION_CLASS)
    ELSE
      LET hosts == online_store_config.hosts
          secure_bundle_path == online_store_config.secure_bundle_path
          port == IF online_store_config.port # None
                     /\ Get(online_store_config.port) # 0
                  THEN Get(online_store_config.port) ELSE DefaultPort
          ks == online_store_config.keyspace
          username == online_store_config.username
          password == online_store_config.password
          db_directions == Truthy(hosts) \/ Truthy(secure_bundle_path)
      IN
      IF ~db_directions \/ ~Truthy(ks)
      THEN Raise(m, E_CASSANDRA_NOT_CONFIGURED)
      ELSE IF Truthy(hosts) /\ Truthy(secure_bundle_path)
      THEN Raise(m, E_CASSANDRA_MISCONFIGURED)
      ELSE IF (username = None) # (password = None)
      THEN Raise(m, E_CASSANDRA_INCONSISTENT_AUTH)
      ELSE
        LET auth_provider ==
                IF username # None
                THEN Some([username |-> Get(username), password |-> Get(password)])
                ELSE None
            c == IF Truthy(hosts)
                 THEN NewCluster([hosts |-> Get(hosts)], Some(port), auth_provider)
                 ELSE NewCluster([cloud |-> Get(secure_bundle_path)], None,
                                 auth_provider)
            m1 == [Logged(m, "Cluster", c, TRUE) EXCEPT !.cluster = Some(c)]
            m2 == [m1 EXCEPT !.keyspace = ks]
        IN  Then(m2, LAMBDA m3 : connect(m3, Get(ks)))

\* Mutant: username and password are not checked to come together.
get_session_unpaired_auth(m, config) ==
    LET online_store_config == config.online_store IN
    IF online_store_config.class # "CassandraOnlineStoreConfig"
    THEN Raise(m, E_CASSANDRA_UNEXPECTED_CONFIGURATION_CLASS)
    ELSE IF m.session # None
    THEN Return(Logged(m, "get_session", Get(m.session), TRUE), m.session)
    ELSE
      LET hosts == online_store_config.hosts
          secure_bundle_path == online_store_config.secure_bundle_path
          port == IF online_store_config.port # None
                     /\ Get(online_store_config.port) # 0
                  THEN Get(online_store_config.port) ELSE DefaultPort
          ks == online_store_config.keyspace
          username == online_store_config.username
          password == online_store_config.password
          db_directions == Truthy(hosts) \/ Truthy(secure_bundle_path)
      IN
      IF ~db_directions \/ ~Truthy(ks)
      THEN Raise(m, E_CASSANDRA_NOT_CONFIGURED)
      ELSE IF Truthy(hosts) /\ Truthy(secure_bundle_path)
      THEN Raise(m, E_CASSANDRA_MISCONFIGURED)
      ELSE
        LET auth_provider ==
                IF username # None
                THEN Some([username |-> Get(username), password |-> password])
                ELSE None
            c == IF Truthy(hosts)
                 THEN NewCluster([hosts |-> Get(hosts)], Some(port), auth_provider)
                 ELSE NewCluster([cloud |-> Get(secure_bundle_path)], None,
                                 auth_provider)
            m1 == [Logged(m, "Cluster", c, TRUE) EXCEPT !.cluster = Some(c)]
            m2 == [m1 EXCEPT !.keyspace = ks]
        IN  Then(m2, LAMBDA m3 : connect(m3, Get(ks)))

get_session(m, config) ==
    LET online_store_config == config.online_store IN
    IF online_store_config.class # "CassandraOnlineStoreConfig"
    THEN Raise(m, E_CASSANDRA_UNEXPECTED_CONFIGURATION_CLASS)
    ELSE IF m.session # None
    THEN Return(Logged(m, "get_session", Get(m.session), TRUE), m.session)
    ELSE
      LET hosts == online_store_config.hosts
          secure_bundle_path == online_store_config.secure_bundle_path
          port == IF online_store_config.port # None
                     /\ Get(online_store_config.port) # 0
                  THEN Get(online_store_config.port) ELSE DefaultPort
          ks == online_store_config.keyspace
          username == online_store_config.username
          password == online_store_config.password
          db_directions == Truthy(hosts) \/ Truthy(secure_bundle_path)
      IN
      IF ~db_directions \/ ~Truthy(ks)
      THEN Raise(m, E_CASSANDRA_NOT_CONFIGURED)
      ELSE IF Truthy(hosts) /\ Truthy(secure_bundle_path)
      THEN Raise(m, E_CASSANDRA_MISCONFIGURED)
      ELSE IF (username = None) # (password = None)
      THEN Raise(m, E_CASSANDRA_INCONSISTENT_AUTH)
      ELSE
        LET auth_provider ==
                IF username # None
                THEN Some([username |-> Get(username), password |-> Get(password)])
                ELSE None
            c == IF Truthy(hosts)
                 THEN NewCluster([hosts |-> Get(hosts)], Some(port), auth_provider)
                 ELSE NewCluster([cloud |-> Get(secure_bundle_path)], None,
                                 auth_provider)
            m1 == [Logged(m, "Cluster", c, TRUE) EXCEPT !.cluster = Some(c)]
            m2 == [m1 EXCEPT !.keyspace = ks]
        IN  Then(m2, LAMBDA m3 : connect(m3, Get(ks)))

(***************************************************************************)
(* CQL command templates (lines 42-76).  A statement is its template with  *)
(* the schema names filled in; the database reads the clauses below.       *)
(***************************************************************************)
INSERT_CQL_4_TEMPLATE ==
    [kind |-> "INSERT",
     into |-> <<"feature_name", "value", "entity_key", "event_ts">>]

INSERT_CQL_5_TEMPLATE ==
    [kind |-> "INSERT",
     into |-> <<"feature_name", "value", "entity_key", "event_ts", "created_ts">>]

SELECT_CQL_TEMPLATE == [kind |-> "SELECT", where |-> "entity_key"]

\* Mutant: CREATE TABLE without IF NOT EXISTS.
CREATE_TABLE_CQL_TEMPLATE_plain ==
    [kind |-> "CREATE", if_not_exists |-> FALSE,
     cells |-> {"value", "event_ts", "created_ts"},
     partition_key |-> "entity_key", clustering_key |-> "feature_name",
     clustering_order |-> "ASC"]

CREATE_TABLE_CQL_TEMPLATE ==
    [kind |-> "CREATE", if_not_exists |-> TRUE,
     cells |-> {"value", "event_ts", "created_ts"},
     partition_key |-> "entity_key", clustering_key |-> "feature_name",
     clustering_order |-> "ASC"]

DROP_TABLE_CQL_TEMPLATE == [kind |-> "DROP", if_exists |-> TRUE]

\* op_name -> (cql template, prepare boolean)
CQL_TEMPLATE_MAP ==
    [insert4 |-> <<INSERT_CQL_4_TEMPLATE, TRUE>>,
     insert5 |-> <<INSERT_CQL_5_TEMPLATE, TRUE>>,
     select  |-> <<SELECT_CQL_TEMPLATE, TRUE>>,
     drop    |-> <<DROP_TABLE_CQL_TEMPLATE, FALSE>>,
     create  |-> <<CREATE_TABLE_CQL_TEMPLATE, FALSE>>]

\* template.format(fqtable=fqtable, **kwargs); kwargs is a sequence of
\* <<name, value>> pairs (only "columns" is ever passed, line 407).
RenderStatement(template, fqtable, kwargs) ==
    LET kw == [k \in {kwargs[i][1] : i \in DOMAIN kwargs} |->
                  kwargs[CHOOSE i \in DOMAIN kwargs : kwargs[i][1] = k][2]]
    IN  [table |-> fqtable] @@ kw @@ template

\* ", ".join(proj): the names with the separator between them.
RECURSIVE Join(_, _)
Join(sep, names) ==
    IF Len(names) = 0 THEN << >>
    ELSE IF Len(names) = 1 THEN names
    ELSE <<names[1], sep>> \o Join(sep, Tail(names))

\* The column list the database reads back out of a SELECT's text.
SplitColumns(text) ==
    [i \in 1..((Len(text) + 1) \div 2) |-> text[2 * i - 1]]

(***************************************************************************)
(* _fq_table_name (lines 334-344).                                         *)
(***************************************************************************)
Quoted(s) == "\"" \o s \o "\""

fq_table_name(ks, project, table) ==
    Quoted(ks) \o "." \o Quoted(project \o "_" \o table.name)

(***************************************************************************)
(* The database, as the driver's session shows it.  A table is a function  *)
(* from primary keys <<entity_key, feature_name>> to the row's cells; a    *)
(* cell is None (never written), Some(v), or Some(None): an explicit null, *)
(* which Cassandra stores as a tombstone.                                  *)
(***************************************************************************)
\* The order of feature names (TEXT, ascending).
NameOrder == <<"a", "b", "c", "d">>
NameRank(n) == CHOOSE i \in DOMAIN NameOrder : NameOrder[i] = n

Statement(s) == IF "stmt" \in DOMAIN s THEN s.stmt ELSE s

NoCells(schema) == [c \in schema.cells |-> None]

Position(seq, x) == CHOOSE i \in DOMAIN seq : seq[i] = x

\* INSERT: an upsert of the row the bound primary key names; the cells the
\* statement does not list keep their value.
Upsert(rows, schema, columns, params) ==
    LET pk == <<params[Position(columns, schema.partition_key)],
                params[Position(columns, schema.clustering_key)]>>
        old == IF pk \in DOMAIN rows THEN rows[pk] ELSE NoCells(schema)
        new == [c \in schema.cells |->
                   IF c \in Range(columns)
                   THEN Some(params[Position(columns, c)]) ELSE old[c]]
    IN  [q \in DOMAIN rows \cup {pk} |-> IF q = pk THEN new ELSE rows[q]]

\* The primary keys of a partition in clustering order.
RECURSIVE Clustered(_, _)
Clustered(pks, order) ==
    IF pks = {} THEN << >>
    ELSE Then(CHOOSE p \in pks : \A q \in pks :
                  IF order = "ASC" THEN NameRank(p[2]) <= NameRank(q[2])
                                   ELSE NameRank(p[2]) >= NameRank(q[2]),
              LAMBDA first :
                  Then(pks \ {first},
                       LAMBDA rest : <<first>> \o Clustered(rest, order)))

\* SELECT ... WHERE entity_key = ?: the rows of the partition, in clustering
\* order, each with the columns the statement names.
Select(rows, schema, columns, params) ==
    LET Column(p, c) == IF c = schema.partition_key THEN p[1]
                        ELSE IF c = schema.clustering_key THEN p[2]
                        ELSE rows[p][c]
        names == IF columns = <<"*">>
                 THEN {schema.partition_key, schema.clustering_key}
                          \cup schema.cells
                 ELSE Range(columns)
    IN  Then({p \in DOMAIN rows : p[1] = params[1]}, LAMBDA pks :
        Then(Clustered(pks, schema.clustering_order), LAMBDA ordered :
            [i \in DOMAIN ordered |-> [c \in names |-> Column(ordered[i], c)]]))

Schema == [cells |-> CREATE_TABLE_CQL_TEMPLATE.cells,
           partition_key |-> CREATE_TABLE_CQL_TEMPLATE.partition_key,
           clustering_key |-> CREATE_TABLE_CQL_TEMPLATE.clustering_key,
           clustering_order |-> CREATE_TABLE_CQL_TEMPLATE.clustering_order]

\* What the database does with a statement: [ok, db, rows].
DbExecute(d, st, params) ==
    LET exists == st.table \in DOMAIN d
        Ok(d2, rows) == [ok |-> TRUE, db |-> d2, rows |-> rows]
        Refused == [ok |-> FALSE, db |-> d, rows |-> << >>]
    IN  CASE st.kind = "CREATE" ->
               IF exists
               THEN IF st.if_not_exists THEN Ok(d, << >>) ELSE Refused
               ELSE Ok((st.table :> EmptyMap) @@ d, << >>)
          [] st.kind = "DROP" ->
               IF exists
               THEN Ok([t \in DOMAIN d \ {st.table} |-> d[t]], << >>)
               ELSE IF st.if_exists THEN Ok(d, << >>) ELSE Refused
          [] st.kind = "INSERT" ->
               IF exists /\ Len(params) = Len(st.into)
               THEN Ok([d EXCEPT ![st.table] =
                           Upsert(@, Schema, st.into, params)], << >>)
               ELSE Refused
          [] st.kind = "SELECT" ->
               IF exists /\ Len(params) = 1
               THEN Ok(d, Select(d[st.table], Schema,
                                 SplitColumns(st.columns), params))
               ELSE Refused

\* session.prepare(statement): the database checks the statement against the
\* schema, so a statement on a missing table is refused.  Every call that
\* succeeds returns a handle of its own, of the session that prepared it.
prepare(m, cache_key, statement) ==
    IF Faulty(m)
    THEN Raise(Logged(m, "prepare", statement, FALSE), E_DRIVER)
    ELSE IF statement.table \notin DOMAIN m.db
    THEN Raise(Logged(m, "prepare", statement, FALSE), E_INVALID_REQUEST)
    ELSE LET n == IF cache_key \in DOMAIN m.handles
                  THEN m.handles[cache_key] + 1 ELSE 1
             h == [stmt |-> statement, serial |-> n, session |-> Get(m.session)]
         IN  [Logged(m, "prepare", statement, TRUE)
                 EXCEPT !.handles = (cache_key :> n) @@ @, !.ret = Some(h)]

\* session.execute(statement, parameters).
execute(m, s, params) ==
    LET arg == [statement |-> s, params |-> params] IN
    IF Faulty(m)
    THEN Raise(Logged(m, "execute", arg, FALSE), E_DRIVER)
    ELSE Then(DbExecute(m.db, Statement(s), params), LAMBDA r :
             IF r.ok
             THEN [Logged(m, "execute", arg, TRUE)
                      EXCEPT !.db = r.db, !.ret = Some(r.rows)]
             ELSE Raise(Logged(m, "execute", arg, FALSE), E_INVALID_REQUEST))

(***************************************************************************)
(* _get_cql_statement (lines 441-479).                                     *)
(***************************************************************************)
\* Mutant: the table is not part of the cache key.
CacheKey_without_table(op_name, fqtable, kwargs) ==
    <<op_name>> \o
        [i \in DOMAIN kwargs |-> kwargs[i][2] \o <<"@", kwargs[i][1]>>]

\* tuple([op_name, fqtable] + ['%s@%s' % (str(v), str(k)) for k, v in ...])
CacheKey(op_name, fqtable, kwargs) ==
    <<op_name, fqtable>> \o
        [i \in DOMAIN kwargs |-> kwargs[i][2] \o <<"@", kwargs[i][1]>>]

\* Mutant: the cache is written but never looked up.
get_cql_statement_no_lookup(m, config, op_name, fqtable, kwargs) ==
    Then(get_session(m, config), LAMBDA m1 :
      IF Failed(m1) THEN m1
      ELSE
        LET template == CQL_TEMPLATE_MAP[op_name][1]
            prepare_it == CQL_TEMPLATE_MAP[op_name][2]
            statement == RenderStatement(template, fqtable, kwargs)
            cache_key == CacheKey(op_name, fqtable, kwargs)
        IN
        IF prepare_it
        THEN Then(prepare(m1, cache_key, statement), LAMBDA m2 :
                 IF Failed(m2) THEN m2
                 ELSE [m2 EXCEPT !.prepared_statements =
                          (cache_key :> Get(m2.ret)) @@ @])
        ELSE Return(m1, Some(statement)))

get_cql_statement(m, config, op_name, fqtable, kwargs) ==
    Then(get_session(m, config), LAMBDA m1 :
      IF Failed(m1) THEN m1
      ELSE
        LET template == CQL_TEMPLATE_MAP[op_name][1]
            prepare_it == CQL_TEMPLATE_MAP[op_name][2]
            statement == RenderStatement(template, fqtable, kwargs)
            cache_key == CacheKey(op_name, fqtable, kwargs)
        IN
        IF prepare_it
        THEN IF cache_key \notin DOMAIN m1.prepared_statements
             THEN Then(prepare(m1, cache_key, statement), LAMBDA m2 :
                      IF Failed(m2) THEN m2
                      ELSE [m2 EXCEPT !.prepared_statements =
                               (cache_key :> Get(m2.ret)) @@ @])
             ELSE Return(m1, Some(m1.prepared_statements[cache_key]))
        ELSE Return(m1, Some(statement)))

(***************************************************************************)
(* The codec (feast, protobuf): serialize_entity_key(k).hex(),             *)
(* ValueProto.SerializeToString and ValueProto.ParseFromString.            *)
(***************************************************************************)
HexDigits == <<"0", "1", "2", "3", "4", "5", "6", "7",
               "8", "9", "a", "b", "c", "d", "e", "f">>

\* One byte in hexadecimal.
HexByte(n) == HexDigits[(n \div 16) + 1] \o HexDigits[(n % 16) + 1]

\* The entity key is serialized to bytes and those are written in hex.
serialize_entity_key_hex(entity_key) == HexByte(2) \o HexByte(entity_key.id)

\* An int64 value on the wire: the field it is the value of, then the number.
SerializeToString(val) == <<"int64_val", val.int64_val>>

ParseFromString(bytes) == [int64_val |-> bytes[2]]

(***************************************************************************)
(* _write_rows (lines 346-385).                                            *)
(***************************************************************************)
\* Mutant: the loop returns after its first row.
write_rows_loop_first_only(m, insert_cql, features_vals, fixed_vals, i) ==
    IF Failed(m) \/ i > Len(features_vals) THEN m
    ELSE execute(m, insert_cql,
                 <<features_vals[i][1], SerializeToString(features_vals[i][2])>>
                     \o fixed_vals)

\* for feature_name, val in features_vals: session.execute(...)
RECURSIVE write_rows_loop(_, _, _, _, _)
write_rows_loop(m, insert_cql, features_vals, fixed_vals, i) ==
    IF Failed(m) \/ i > Len(features_vals) THEN m
    ELSE LET feature_name == features_vals[i][1]
             val == features_vals[i][2]
         IN  Then(execute(m, insert_cql,
                          <<feature_name, SerializeToString(val)>> \o fixed_vals),
                  LAMBDA m1 : write_rows_loop(m1, insert_cql, features_vals,
                                              fixed_vals, i + 1))

\* Mutant: the 5-column insert whatever the entry.
InsertOp_always5(created_ts) == "insert5"

InsertOp(created_ts) == IF created_ts = None THEN "insert4" ELSE "insert5"

FixedVals(entity_key_bin, timestamp, created_ts) ==
    IF created_ts = None
    THEN <<entity_key_bin, timestamp>>
    ELSE <<entity_key_bin, timestamp, Get(created_ts)>>

write_rows(m, config, project, table, entity_key_bin, features_vals, timestamp, created_ts) ==
    Then(get_session(m, config), LAMBDA m1 :
      IF Failed(m1) THEN m1
      ELSE
        LET fqtable == fq_table_name(Get(m1.keyspace), project, table) IN
        Then(get_cql_statement(m1, config, InsertOp(created_ts), fqtable, << >>),
             LAMBDA m2 :
               IF Failed(m2) THEN m2
               ELSE write_rows_loop(m2, Get(m2.ret), features_vals,
                        FixedVals(entity_key_bin, timestamp, created_ts), 1)))

(***************************************************************************)
(* online_write_batch (lines 204-237).  An entry of data is                *)
(* <<entity_key, values, timestamp, created_ts>>, values being the items   *)
(* of the dict in its order; progress is whether a callback was given.     *)
(***************************************************************************)
\* Mutant: the callback is called whether or not the entry was written.
Progress_despite_failure(m, progress) ==
    IF progress THEN Logged(m, "progress", 1, TRUE) ELSE m

\* if progress: progress(1)
Progress(m, progress) ==
    IF ~Failed(m) /\ progress THEN Logged(m, "progress", 1, TRUE) ELSE m

\* Mutant: a failed entry is dropped and the loop goes on.
RECURSIVE write_batch_loop_continue(_, _, _, _, _, _)
write_batch_loop_continue(m, config, table, data, progress, i) ==
    IF i > Len(data) THEN [m EXCEPT !.entry = 0]
    ELSE LET entity_key_bin == serialize_entity_key_hex(data[i][1]) IN
         Then([m EXCEPT !.entry = i, !.err = None], LAMBDA m0 :
         Then(write_rows(m0, config, config.project, table, entity_key_bin,
                         data[i][2], data[i][3], data[i][4]), LAMBDA m1 :
         Then(Progress(m1, progress), LAMBDA m2 :
             write_batch_loop_continue(m2, config, table, data, progress,
                                       i + 1))))

RECURSIVE write_batch_loop(_, _, _, _, _, _)
write_batch_loop(m, config, table, data, progress, i) ==
    IF Failed(m) \/ i > Len(data) THEN [m EXCEPT !.entry = 0]
    ELSE LET entity_key_bin == serialize_entity_key_hex(data[i][1]) IN
         Then([m EXCEPT !.entry = i], LAMBDA m0 :
         Then(write_rows(m0, config, config.project, table, entity_key_bin,
                         data[i][2], data[i][3], data[i][4]), LAMBDA m1 :
         Then(Progress(m1, progress), LAMBDA m2 :
             write_batch_loop(m2, config, table, data, progress, i + 1))))

online_write_batch(m, config, table, data, progress) ==
    Then(write_batch_loop(m, config, table, data, progress, 1),
         LAMBDA m1 : Return(m1, None))

(***************************************************************************)
(* _read_rows_by_entity_key (lines 387-409) and online_read (239-285).     *)
(***************************************************************************)
read_rows_by_entity_key(m, config, project, table, entity_key_bin, proj) ==
    Then(get_session(m, config), LAMBDA m1 :
      IF Failed(m1) THEN m1
      ELSE
        LET fqtable == fq_table_name(Get(m1.keyspace), project, table)
            columns == IF proj = None THEN <<"*">> ELSE Join(", ", Get(proj))
        IN
        Then(get_cql_statement(m1, config, "select", fqtable,
                               <<(<<"columns", columns>>)>>),
             LAMBDA m2 :
               IF Failed(m2) THEN m2
               ELSE execute(m2, Get(m2.ret), <<entity_key_bin>>)))

\* Mutant: the timestamp returned is the latest of the matching rows.
RECURSIVE read_rows_loop_latest_ts(_, _, _, _)
read_rows_loop_latest_ts(feature_rows, requested_features, acc, i) ==
    IF i > Len(feature_rows) THEN acc
    ELSE LET feature_row == feature_rows[i]
             wanted == \/ requested_features = None
                       \/ feature_row.feature_name \in Range(Get(requested_features))
             val == ParseFromString(Get(feature_row.value))
             res == (feature_row.feature_name :> val) @@ acc[2]
             res_ts == IF acc[1] # None /\ Get(acc[1]) > Get(feature_row.event_ts)
                       THEN acc[1] ELSE feature_row.event_ts
         IN  Then(IF wanted THEN <<res_ts, res>> ELSE acc,
                  LAMBDA acc1 : read_rows_loop_latest_ts(feature_rows,
                                    requested_features, acc1, i + 1))

\* Mutant: the filter is not applied.
RECURSIVE read_rows_loop_unfiltered(_, _, _, _)
read_rows_loop_unfiltered(feature_rows, requested_features, acc, i) ==
    IF i > Len(feature_rows) THEN acc
    ELSE LET feature_row == feature_rows[i]
             val == ParseFromString(Get(feature_row.value))
             res == (feature_row.feature_name :> val) @@ acc[2]
         IN  Then(<<feature_row.event_ts, res>>, LAMBDA acc1 :
                 read_rows_loop_unfiltered(feature_rows, requested_features,
                                           acc1, i + 1))

\* for feature_row in feature_rows: ...; the pair <<res_ts, res>> so far.
RECURSIVE read_rows_loop(_, _, _, _)
read_rows_loop(feature_rows, requested_features, acc, i) ==
    IF i > Len(feature_rows) THEN acc
    ELSE LET feature_row == feature_rows[i]
             wanted == \/ requested_features = None
                       \/ feature_row.feature_name \in Range(Get(requested_features))
             val == ParseFromString(Get(feature_row.value))
             res == (feature_row.feature_name :> val) @@ acc[2]
         IN  Then(IF wanted THEN <<feature_row.event_ts, res>> ELSE acc,
                  LAMBDA acc1 : read_rows_loop(feature_rows, requested_features,
                                               acc1, i + 1))

ReadProjection == <<"feature_name", "value", "event_ts">>

\* Mutant: a key without matching rows adds nothing to the result.
RECURSIVE online_read_loop_skip_empty(_, _, _, _, _, _, _)
online_read_loop_skip_empty(m, config, table, entity_keys, requested_features, result, i) ==
    IF Failed(m) THEN m
    ELSE IF i > Len(entity_keys) THEN Return(m, Some(result))
    ELSE LET entity_key_bin == serialize_entity_key_hex(entity_keys[i]) IN
         Then(read_rows_by_entity_key(m, config, config.project, table,
                                      entity_key_bin, Some(ReadProjection)),
              LAMBDA m1 :
           IF Failed(m1) THEN m1
           ELSE Then(read_rows_loop(Get(m1.ret), requested_features,
                                    <<None, EmptyMap>>, 1), LAMBDA acc :
                Then(IF DOMAIN acc[2] = {} THEN result
                     ELSE Append(result, <<acc[1], Some(acc[2])>>), LAMBDA result1 :
                    online_read_loop_skip_empty(m1, config, table, entity_keys,
                        requested_features, result1, i + 1))))

\* Mutant: the empty result is returned as it is, not as (None, None).
RECURSIVE online_read_loop_no_none(_, _, _, _, _, _, _)
online_read_loop_no_none(m, config, table, entity_keys, requested_features, result, i) ==
    IF Failed(m) THEN m
    ELSE IF i > Len(entity_keys) THEN Return(m, Some(result))
    ELSE LET entity_key_bin == serialize_entity_key_hex(entity_keys[i]) IN
         Then(read_rows_by_entity_key(m, config, config.project, table,
                                      entity_key_bin, Some(ReadProjection)),
              LAMBDA m1 :
           IF Failed(m1) THEN m1
           ELSE Then(read_rows_loop(Get(m1.ret), requested_features,
                                    <<None, EmptyMap>>, 1), LAMBDA acc :
                Then(Append(result, <<acc[1], Some(acc[2])>>), LAMBDA result1 :
                    online_read_loop_no_none(m1, config, table, entity_keys,
                        requested_features, result1, i + 1))))

RECURSIVE online_read_loop(_, _, _, _, _, _, _)
online_read_loop(m, config, table, entity_keys, requested_features, result, i) ==
    IF Failed(m) THEN m
    ELSE IF i > Len(entity_keys) THEN Return(m, Some(result))
    ELSE LET entity_key_bin == serialize_entity_key_hex(entity_keys[i]) IN
         Then(read_rows_by_entity_key(m, config, config.project, table,
                                      entity_key_bin, Some(ReadProjection)),
              LAMBDA m1 :
           IF Failed(m1) THEN m1
           ELSE Then(read_rows_loop(Get(m1.ret), requested_features,
                                    <<None, EmptyMap>>, 1), LAMBDA acc :
                LET res_ts == acc[1]
                    res == acc[2]
                    item == IF DOMAIN res = {} THEN <<None, None>>
                            ELSE <<res_ts, Some(res)>>
                IN  Then(Append(result, item), LAMBDA result1 :
                        online_read_loop(m1, config, table, entity_keys,
                                         requested_features, result1, i + 1))))

online_read(m, config, table, entity_keys, requested_features) ==
    online_read_loop(m, config, table, entity_keys, requested_features, << >>, 1)

(***************************************************************************)
(* _drop_table, _create_table (lines 411-439), update (287-312) and        *)
(* teardown (314-332).                                                     *)
(***************************************************************************)
drop_table(m, config, project, table) ==
    Then(get_session(m, config), LAMBDA m1 :
      IF Failed(m1) THEN m1
      ELSE LET fqtable == fq_table_name(Get(m1.keyspace), project, table) IN
           Then(get_cql_statement(m1, config, "drop", fqtable, << >>), LAMBDA m2 :
             IF Failed(m2) THEN m2
             ELSE Then(execute(m2, Get(m2.ret), << >>),
                       LAMBDA m3 : Return(m3, None))))

create_table(m, config, project, table) ==
    Then(get_session(m, config), LAMBDA m1 :
      IF Failed(m1) THEN m1
      ELSE LET fqtable == fq_table_name(Get(m1.keyspace), project, table) IN
           Then(get_cql_statement(m1, config, "create", fqtable, << >>), LAMBDA m2 :
             IF Failed(m2) THEN m2
             ELSE Then(execute(m2, Get(m2.ret), << >>),
                       LAMBDA m3 : Return(m3, None))))

RECURSIVE create_tables(_, _, _, _)
create_tables(m, config, tables, i) ==
    IF Failed(m) \/ i > Len(tables) THEN m
    ELSE Then(create_table(m, config, config.project, tables[i]),
              LAMBDA m1 : create_tables(m1, config, tables, i + 1))

RECURSIVE drop_tables(_, _, _, _)
drop_tables(m, config, tables, i) ==
    IF Failed(m) \/ i > Len(tables) THEN m
    ELSE Then(drop_table(m, config, config.project, tables[i]),
              LAMBDA m1 : drop_tables(m1, config, tables, i + 1))

\* Mutant: the tables to delete are dropped before the others are created.
update_drop_first(m, config, tables_to_delete, tables_to_keep) ==
    Then(drop_tables(m, config, tables_to_delete, 1), LAMBDA m1 :
    Then(create_tables(m1, config, tables_to_keep, 1), LAMBDA m2 :
        Return(m2, None)))

update(m, config, tables_to_delete, tables_to_keep) ==
    Then(create_tables(m, config, tables_to_keep, 1), LAMBDA m1 :
    Then(drop_tables(m1, config, tables_to_delete, 1), LAMBDA m2 :
        Return(m2, None)))

teardown(m, config, tables) ==
    Then(drop_tables(m, config, tables, 1), LAMBDA m1 : Return(m1, None))

(***************************************************************************)
(* The arguments the operations are called with.                           *)
(***************************************************************************)
MaxKey == 2        \* entity keys
NumFeatures == 2   \* feature names a view's entries use
MaxVal == 2        \* feature values
MaxTs == 2         \* event timestamps
MaxBatch == 1      \* entries of a batch
MaxRead == 2       \* entity keys of a read

ConfigClass == "CassandraOnlineStoreConfig"

StoreConfig(class, hosts, secure_bundle_path, port, ks, username, password) ==
    [class |-> class, hosts |-> hosts, secure_bundle_path |-> secure_bundle_path,
     port |-> port, keyspace |-> ks, username |-> username, password |-> password]

RepoConfig(project, online_store) ==
    [project |-> project, online_store |-> online_store]

\* A valid configuration: hosts and a keyspace.
HostsConfig(project, ks) ==
    RepoConfig(project, StoreConfig(ConfigClass, Some(<<"h1">>), None, None,
                                    Some(ks), None, None))

FeatureView(name) == [name |-> name]

EntityKeys == {[id |-> n] : n \in 1..MaxKey}
FeatureNames == {NameOrder[i] : i \in 1..NumFeatures}
Values == {[int64_val |-> v] : v \in 1..MaxVal}
Timestamps == 1..MaxTs

\* The sequences of at most n elements of S.
SeqsUpTo(S, n) == UNION {[1..k -> S] : k \in 0..n}

\* The items of a dict: at most n pairs with different names, in any order.
Items(names, vals, n) ==
    {s \in SeqsUpTo(names \X vals, n) :
        \A i, j \in DOMAIN s : s[i][1] = s[j][1] => i = j}

Entries(keys, items, tss, created) == keys \X items \X tss \X created

(***************************************************************************)
(* The state after construction (lines 136-139) with an empty keyspace on  *)
(* the database, and the operations.                                       *)
(***************************************************************************)
NoOp == [op |-> "none", args |-> EmptyMap, fault |-> 0, err |-> None,
         ret |-> None, log |-> << >>]

\* The fields of an instance after construction (lines 136-138).
NewInstance == [cluster |-> None, session |-> None, keyspace |-> None]

NumCallers == 2    \* threads that call the instance at the same time
Callers == 1..NumCallers

\* A thread that has not called yet.
NotCalling ==
    [pc |-> "start", op_name |-> None, constructed |-> None, opened |-> None,
     session |-> None, statement_session |-> None, prepared |-> None,
     statement |-> None]

Init ==
    /\ other = NewInstance
    /\ callers = [c \in Callers |-> NotCalling]
    /\ cluster = None
    /\ session = None
    /\ keyspace = None
    /\ prepared_statements = EmptyMap
    /\ db = EmptyMap
    /\ handles = EmptyMap
    /\ written = EmptyMap
    /\ last = NoOp

\* The fault named is one that happened: the faulty call was reached.
FaultFired(m) ==
    m.fault = 0 \/ (m.ncalls = m.fault /\ m.err = Some(E_DRIVER))

\* The operation has run to its end (or to its exception): the instance and
\* the database are as it left them, and last is what the caller sees.  The
\* store is called sequentially: the next call starts after Returned.
Commit(m, op, args) ==
    /\ last.op = "none"
    /\ FaultFired(m)
    /\ cluster' = m.cluster
    /\ session' = m.session
    /\ keyspace' = m.keyspace
    /\ prepared_statements' = m.prepared_statements
    /\ db' = m.db
    /\ handles' = m.handles
    /\ last' = [op |-> op, args |-> args, fault |-> m.fault, err |-> m.err,
                ret |-> m.ret, log |-> m.log]
    /\ UNCHANGED <<other, callers>>

(***************************************************************************)
(* Ghost: per feature view (project, name) whose table exists, the feature *)
(* maps the writes to it add up to since the table was created: for every  *)
(* entity key, the last value written under each feature name.             *)
(***************************************************************************)
View(config, table) == <<config.project, table.name>>

\* The (entity key, feature name, value) triples of a batch, in the order
\* the batch gives them.
RECURSIVE WrittenRows(_, _)
WrittenRows(data, i) ==
    IF i > Len(data) THEN << >>
    ELSE [j \in DOMAIN data[i][2] |->
             <<data[i][1], data[i][2][j][1], data[i][2][j][2]>>]
         \o WrittenRows(data, i + 1)

\* rewritten: some write replaced a value written before by another one.
RECURSIVE WrittenMaps(_, _, _)
WrittenMaps(wv, wrows, n) ==
    IF n = 0 THEN wv
    ELSE Then(WrittenMaps(wv, wrows, n - 1), LAMBDA before :
           LET k == wrows[n][1]
               name == wrows[n][2]
               old == IF k \in DOMAIN before.maps THEN before.maps[k] ELSE EmptyMap
               replaced == name \in DOMAIN old /\ old[name] # wrows[n][3]
           IN  [maps |-> (k :> ((name :> wrows[n][3]) @@ old)) @@ before.maps,
                rewritten |-> before.rewritten \/ replaced])

\* The tables an update or teardown got through, the rows a write got
\* through: one per statement executed.
Executed(log) == Len(SelectSeq(log, LAMBDA e : e.kind = "execute" /\ e.ok))

\* The rows written are all the rows of the batch when the write succeeded,
\* and those whose upsert the database executed when it failed.
WrittenAfterWrite(w, view, data, log, err) ==
    IF view \notin DOMAIN w THEN w
    ELSE Then(WrittenRows(data, 1), LAMBDA wrows :
             [w EXCEPT ![view] =
                 WrittenMaps(@, wrows, IF err = None THEN Len(wrows)
                                       ELSE Executed(log))])

RECURSIVE WrittenAfterDdl(_, _, _, _)
WrittenAfterDdl(w, project, ddl, n) ==
    IF n = 0 \/ ddl = << >> THEN w
    ELSE LET view == <<project, ddl[1][2].name>>
             w1 == IF ddl[1][1] = "create"
                   THEN IF view \in DOMAIN w THEN w
                        ELSE (view :> [maps |-> EmptyMap, rewritten |-> FALSE]) @@ w
                   ELSE [v \in DOMAIN w \ {view} |-> w[v]]
         IN  Then(w1, LAMBDA w2 : WrittenAfterDdl(w2, project, Tail(ddl), n - 1))

Ddl(kind, tables) == [i \in DOMAIN tables |-> <<kind, tables[i]>>]

WriteBatch(configs, tables, batches, callbacks, faults) ==
    /\ last.op = "none"
    /\ \E config \in configs, table \in tables, data \in batches,
          progress \in callbacks, fault \in faults :
         \E m \in {online_write_batch(Machine(fault), config, table, data, progress)} :
            /\ Commit(m, "online_write_batch",
                      [config |-> config, table |-> table, data |-> data,
                       progress |-> progress])
            /\ written' = WrittenAfterWrite(written, View(config, table), data,
                                             m.log, m.err)

OnlineRead(configs, tables, keyseqs, requests, faults) ==
    /\ last.op = "none"
    /\ \E config \in configs, table \in tables, entity_keys \in keyseqs,
          requested_features \in requests, fault \in faults :
         \E m \in {online_read(Machine(fault), config, table, entity_keys, requested_features)} :
            /\ Commit(m, "online_read",
                      [config |-> config, table |-> table,
                       entity_keys |-> entity_keys,
                       requested_features |-> requested_features])
            /\ UNCHANGED written

Update(configs, tablelists, faults) ==
    /\ last.op = "none"
    /\ \E config \in configs, tables_to_delete \in tablelists,
          tables_to_keep \in tablelists, fault \in faults :
         \E m \in {update(Machine(fault), config, tables_to_delete, tables_to_keep)} :
            /\ Commit(m, "update",
                      [config |-> config, tables_to_delete |-> tables_to_delete,
                       tables_to_keep |-> tables_to_keep])
            /\ written' = WrittenAfterDdl(written, config.project,
                              Ddl("create", tables_to_keep)
                                  \o Ddl("drop", tables_to_delete),
                              Executed(m.log))

Teardown(configs, tablelists, faults) ==
    /\ last.op = "none"
    /\ \E config \in configs, tables \in tablelists, fault \in faults :
         \E m \in {teardown(Machine(fault), config, tables)} :
            /\ Commit(m, "teardown", [config |-> config, tables |-> tables])
            /\ written' = WrittenAfterDdl(written, config.project,
                              Ddl("drop", tables), Executed(m.log))

\* The caller has the result; the store is ready for the next call.
Returned ==
    /\ last.op # "none"
    /\ last' = NoOp
    /\ UNCHANGED <<cluster, session, keyspace, prepared_statements, db,
                   handles, written, other, callers>>

(***************************************************************************)
(* Spec: the read and write paths of one feature view under one valid      *)
(* configuration; single-entry batches, every feature map, filter and key  *)
(* list within the bounds.                                                 *)
(***************************************************************************)
Configs == {HostsConfig("p", "ks")}
Tables == {FeatureView("fv1")}
Batches == SeqsUpTo(Entries(EntityKeys, Items(FeatureNames, Values, NumFeatures),
                            Timestamps, {None}), MaxBatch)
KeySeqs == SeqsUpTo(EntityKeys, MaxRead)
Requests == {None} \cup {Some(s) : s \in {<< >>, <<"a">>, <<"b">>, <<"b", "a">>,
                                          <<"a", "d">>, <<"d">>}}
TableLists == SeqsUpTo(Tables, 1)

Next ==
    \/ WriteBatch(Configs, Tables, Batches, {FALSE}, {0})
    \/ OnlineRead(Configs, Tables, KeySeqs, Requests, {0})
    \/ Update(Configs, TableLists, {0})
    \/ Teardown(Configs, TableLists, {0})
    \/ Returned

Spec == Init /\ [][Next]_vars

(***************************************************************************)
(* What the claims about a read compare its result with: the rows of the   *)
(* table as the database holds them.                                       *)
(***************************************************************************)
ReadDone == last.op = "online_read" /\ last.err = None
ReadKeys == last.args.entity_keys
ReadFilter == last.args.requested_features
ReadResult == Get(last.ret)
ReadView == View(last.args.config, last.args.table)

\* The table of the view read, in the keyspace and project of the call.
ReadRows ==
    db[fq_table_name(Get(last.args.config.online_store.keyspace),
                     last.args.config.project, last.args.table)]

\* The feature names stored for a key, and those the filter lets through.
StoredNames(rows, entity_key) ==
    {p[2] : p \in {q \in DOMAIN rows : q[1] = serialize_entity_key_hex(entity_key)}}

PassingNames(rows, entity_key, filter) ==
    {n \in StoredNames(rows, entity_key) : filter = None \/ n \in Range(Get(filter))}

StoredValue(rows, entity_key, n) ==
    ParseFromString(Get(rows[<<serialize_entity_key_hex(entity_key), n>>].value))

StoredTs(rows, entity_key, n) ==
    rows[<<serialize_entity_key_hex(entity_key), n>>].event_ts

\* C1: after successful writes into the existing table of a view, a read of
\* key K without a filter returns exactly the feature names written for K
\* since the table was created, each with the value of the most recent write
\* of that (K, name) pair (nothing written: nothing returned).
C1_RoundTrip ==
    (/\ ReadDone
     /\ ReadFilter = None
     /\ ReadView \in DOMAIN written)
    => \A i \in DOMAIN ReadKeys :
          LET maps == written[ReadView].maps
              expected == IF ReadKeys[i] \in DOMAIN maps
                          THEN maps[ReadKeys[i]] ELSE EmptyMap
          IN  /\ i \in DOMAIN ReadResult
              /\ ReadResult[i][2] = IF DOMAIN expected = {} THEN None
                                    ELSE Some(expected)

\* A read that returns two features of a key after a value was overwritten.
C1_Witness ==
    /\ ReadDone
    /\ ReadFilter = None
    /\ ReadView \in DOMAIN written
    /\ written[ReadView].rewritten
    /\ \E i \in DOMAIN ReadResult :
          /\ ReadResult[i][2] # None
          /\ Cardinality(DOMAIN Get(ReadResult[i][2])) >= 2

\* C2: a read returns one result per input key, in input order: the i-th
\* result is the one the rows of the i-th key give, also for a key that
\* occurs several times.
C2_OnePerKeyInOrder ==
    ReadDone =>
        /\ Len(ReadResult) = Len(ReadKeys)
        /\ \A i \in DOMAIN ReadKeys :
              LET names == PassingNames(ReadRows, ReadKeys[i], ReadFilter)
              IN  IF names = {} THEN ReadResult[i] = <<None, None>>
                  ELSE /\ ReadResult[i][2] # None
                       /\ DOMAIN Get(ReadResult[i][2]) = names
        /\ \A i, j \in DOMAIN ReadKeys :
              ReadKeys[i] = ReadKeys[j] => ReadResult[i] = ReadResult[j]

\* A read in which a key with stored rows occurs twice.
C2_Witness ==
    /\ ReadDone
    /\ \E i, j \in DOMAIN ReadKeys :
          /\ i < j
          /\ ReadKeys[i] = ReadKeys[j]
          /\ ReadResult[i][2] # None
          /\ ReadResult[j] = ReadResult[i]

\* C3: the result for a key is (None, None) exactly when no stored row of
\* the key passes the filter; otherwise it is a timestamp together with a
\* non-empty feature map.
C3_AbsentIffNoRow ==
    ReadDone =>
        \A i \in DOMAIN ReadKeys :
            LET names == PassingNames(ReadRows, ReadKeys[i], ReadFilter)
                r == ReadResult[i]
            IN  /\ (r = <<None, None>>) <=> (names = {})
                /\ (r[1] = None) <=> (r[2] = None)
                /\ r[2] # None => DOMAIN Get(r[2]) # {}

\* A key with stored rows none of which the filter names, read as absent.
C3_Witness ==
    /\ ReadDone
    /\ \E i \in DOMAIN ReadKeys :
          /\ StoredNames(ReadRows, ReadKeys[i]) # {}
          /\ ReadFilter # None
          /\ PassingNames(ReadRows, ReadKeys[i], ReadFilter) = {}
          /\ ReadResult[i] = <<None, None>>
    /\ \E i \in DOMAIN ReadKeys : ReadResult[i][1] # None

\* C4: with a filter, the map returned for a key holds exactly the stored
\* features of the key that the filter names, each with its stored value.
C4_Projection ==
    (ReadDone /\ ReadFilter # None) =>
        \A i \in DOMAIN ReadKeys :
            LET wanted == StoredNames(ReadRows, ReadKeys[i])
                              \cap Range(Get(ReadFilter))
                r == ReadResult[i]
            IN  /\ wanted # {} => r[2] # None
                /\ r[2] # None =>
                      /\ DOMAIN Get(r[2]) = wanted
                      /\ \A n \in wanted :
                            Get(r[2])[n] = StoredValue(ReadRows, ReadKeys[i], n)

\* Two features stored, one requested, one returned.
C4_Witness ==
    /\ ReadDone
    /\ ReadFilter # None
    /\ \E i \in DOMAIN ReadKeys :
          /\ Cardinality(StoredNames(ReadRows, ReadKeys[i])) >= 2
          /\ ReadResult[i][2] # None
          /\ Cardinality(DOMAIN Get(ReadResult[i][2])) = 1

\* The last of a set of feature names in the order the table clusters its
\* rows by: feature_name ascending.
LastName(names) ==
    CHOOSE n \in names : \A o \in names : NameRank(o) <= NameRank(n)

\* C14: for a key with a matching row, the timestamp a read returns is the
\* event_ts of the last row, by feature name ascending, whose name passes
\* the filter.
C14_TimestampOfLastRow ==
    ReadDone =>
        \A i \in DOMAIN ReadKeys :
            LET names == PassingNames(ReadRows, ReadKeys[i], ReadFilter) IN
            names # {} =>
                ReadResult[i][1] = StoredTs(ReadRows, ReadKeys[i], LastName(names))

\* A read that returns two features of a key with a timestamp older than
\* the event_ts stored for one of them.
C14_Witness ==
    /\ ReadDone
    /\ \E i \in DOMAIN ReadKeys :
          /\ ReadResult[i][2] # None
          /\ Cardinality(DOMAIN Get(ReadResult[i][2])) >= 2
          /\ \E n \in DOMAIN Get(ReadResult[i][2]) :
                Get(StoredTs(ReadRows, ReadKeys[i], n)) > Get(ReadResult[i][1])

(***************************************************************************)
(* SpecBatch: batches of several entries, with and without created_ts and  *)
(* a progress callback, and a driver call that fails.                      *)
(***************************************************************************)
BatchLen == 2      \* entries of a batch
BatchKeys == 1     \* entity keys of its entries
MaxFault == 7      \* the driver calls of an operation that may fail

Faults == 0..MaxFault
BatchEntries ==
    Entries({[id |-> n] : n \in 1..BatchKeys},
            Items(FeatureNames, {[int64_val |-> 1]}, NumFeatures),
            {1}, {None, Some(1)})

NextBatch ==
    \/ WriteBatch(Configs, Tables, SeqsUpTo(BatchEntries, BatchLen), BOOLEAN, Faults)
    \/ Update(Configs, {<< >>, <<FeatureView("fv1")>>}, {0})
    \/ Returned

SpecBatch == Init /\ [][NextBatch]_vars

(***************************************************************************)
(* What the claims about a write compare it with: the rows its entries     *)
(* stand for, in the order of the batch.                                   *)
(***************************************************************************)
IsWrite(l) == l.op = "online_write_batch"
Executes(log) == SelectSeq(log, LAMBDA e : e.kind = "execute")

\* The rows of a batch: entry, primary key and cells, in the order written.
RECURSIVE BatchRows(_, _)
BatchRows(data, i) ==
    IF i > Len(data) THEN << >>
    ELSE [j \in DOMAIN data[i][2] |->
             [entry |-> i,
              pk |-> <<serialize_entity_key_hex(data[i][1]), data[i][2][j][1]>>,
              value |-> SerializeToString(data[i][2][j][2]),
              event_ts |-> data[i][3],
              created_ts |-> data[i][4]]]
         \o BatchRows(data, i + 1)

\* The table with the first n of those rows upserted.
RECURSIVE WithRows(_, _, _)
WithRows(rows, brows, n) ==
    IF n = 0 THEN rows
    ELSE LET before == WithRows(rows, brows, n - 1)
             r == brows[n]
             created == IF r.created_ts # None THEN r.created_ts
                        ELSE IF r.pk \in DOMAIN before
                        THEN before[r.pk].created_ts ELSE None
         IN  (r.pk :> [value |-> Some(r.value), event_ts |-> Some(r.event_ts),
                       created_ts |-> created]) @@ before

WriteTable(l) ==
    fq_table_name(Get(l.args.config.online_store.keyspace),
                  l.args.config.project, l.args.table)

\* C5: every row upsert of an entry without creation timestamp uses the
\* 4-column insert (no created_ts bound), and every row upsert of an entry
\* with one uses the 5-column insert, entry by entry.
C5_InsertKindPerEntry ==
    IsWrite(last) =>
        \A k \in DOMAIN last.log :
            LET e == last.log[k] IN
            e.kind = "execute" =>
                LET created_ts == last.args.data[e.entry][4]
                    into == Statement(e.arg.statement).into
                IN  IF created_ts = None
                    THEN /\ into = INSERT_CQL_4_TEMPLATE.into
                         /\ "created_ts" \notin Range(into)
                         /\ Len(e.arg.params) = 4
                    ELSE /\ into = INSERT_CQL_5_TEMPLATE.into
                         /\ Len(e.arg.params) = 5
                         /\ e.arg.params[Position(into, "created_ts")]
                                = Get(created_ts)

\* A batch that wrote rows of an entry without and of an entry with a
\* creation timestamp.
C5_Witness ==
    /\ IsWrite(last)
    /\ last.err = None
    /\ \E j, k \in DOMAIN last.log :
          /\ last.log[j].kind = "execute"
          /\ last.log[k].kind = "execute"
          /\ last.args.data[last.log[j].entry][4] = None
          /\ last.args.data[last.log[k].entry][4] # None

\* C10: when a row upsert fails, the error reaches the caller, the upserts
\* attempted are the rows of the batch up to the failing one and no other,
\* and the rows before the failing one are in the table.
C10_FailureStopsBatch ==
    [][(/\ IsWrite(last')
        /\ \E k \in DOMAIN last'.log :
              last'.log[k].kind = "execute" /\ ~last'.log[k].ok)
       => LET log == last'.log
              attempts == Executes(log)
              n == Len(attempts)
              brows == BatchRows(last'.args.data, 1)
              t == WriteTable(last')
          IN  /\ last'.err # None
              /\ ~log[Len(log)].ok
              /\ log[Len(log)].kind = "execute"
              /\ \A j \in 1..(n - 1) : attempts[j].ok
              /\ n <= Len(brows)
              /\ \A j \in 1..n :
                    /\ attempts[j].entry = brows[j].entry
                    /\ attempts[j].arg.params[3] = brows[j].pk[1]
                    /\ attempts[j].arg.params[1] = brows[j].pk[2]
              /\ IF t \in DOMAIN db
                 THEN /\ t \in DOMAIN db'
                      /\ db'[t] = WithRows(db[t], brows, n - 1)
                 ELSE db' = db]_vars

\* The second row of the second entry failed: one entry and one more row
\* were written before.
C10_Witness ==
    /\ IsWrite(last)
    /\ last.err # None
    /\ Len(last.log) > 0
    /\ LET e == last.log[Len(last.log)]
           attempts == Executes(last.log)
       IN  /\ e.kind = "execute"
           /\ ~e.ok
           /\ e.entry = 2
           /\ Len(attempts) >= 3
           /\ attempts[Len(attempts) - 1].entry = 2
           /\ attempts[1].entry = 1

ProgressCalls(log) == SelectSeq(log, LAMBDA e : e.kind = "progress")

\* The entries of a write that were completed: all of them when it returned
\* normally, those before the one whose call failed otherwise.
Completed(l) ==
    IF l.err = None THEN Len(l.args.data)
    ELSE IF l.log = << >> THEN 0
    ELSE l.log[Len(l.log)].entry - 1

\* C11: with a progress callback, a write calls it with 1 once per entry
\* completed, in the order of the batch, after every row upsert of the entry
\* (all its rows were upserted) and before any call made for a later entry;
\* all entries are completed when the write returns normally, the entries
\* before N when it fails at entry N.  Without a callback nothing is called.
C11_ProgressPerEntry ==
    IsWrite(last) =>
        LET calls == ProgressCalls(last.log) IN
        IF ~last.args.progress THEN calls = << >>
        ELSE /\ Len(calls) = Completed(last)
             /\ \A i \in DOMAIN calls : calls[i].entry = i /\ calls[i].arg = 1
             /\ \A p \in DOMAIN last.log :
                   last.log[p].kind = "progress" =>
                       LET i == last.log[p].entry IN
                       /\ \A q \in DOMAIN last.log :
                             /\ (q < p => last.log[q].entry <= i)
                             /\ (q > p => last.log[q].entry > i)
                       /\ Len(SelectSeq(SubSeq(last.log, 1, p),
                                        LAMBDA e : /\ e.kind = "execute"
                                                   /\ e.ok
                                                   /\ e.entry = i))
                              = Len(last.args.data[i][2])

\* A write of two entries, the first without features, that failed at a row
\* of the second: the callback was called for the first entry only.
C11_Witness ==
    /\ IsWrite(last)
    /\ last.args.progress
    /\ Len(last.args.data) = 2
    /\ last.args.data[1][2] = << >>
    /\ last.err # None
    /\ Len(ProgressCalls(last.log)) = 1
    /\ \E k \in DOMAIN last.log :
          last.log[k].kind = "execute" /\ last.log[k].ok /\ last.log[k].entry = 2

(***************************************************************************)
(* SpecTables: two feature views, created, written, read and dropped in    *)
(* any order, with a driver call that fails.                               *)
(***************************************************************************)
MaxTables == 2     \* feature views of an update or teardown
MaxTableFault == 2 \* the driver calls of an operation that may fail

TwoTables == {FeatureView("fv1"), FeatureView("fv2")}
OneKeyBatches ==
    SeqsUpTo(Entries({[id |-> 1]}, Items({"a"}, {[int64_val |-> 1]}, 1), {1},
                     {None, Some(1)}), 1)

NextTables ==
    \/ WriteBatch(Configs, TwoTables, OneKeyBatches, {FALSE}, 0..MaxTableFault)
    \/ OnlineRead(Configs, TwoTables, SeqsUpTo({[id |-> 1]}, 1), {None},
                  0..MaxTableFault)
    \/ Update(Configs, SeqsUpTo(TwoTables, MaxTables), 0..MaxTableFault)
    \/ Teardown(Configs, SeqsUpTo(TwoTables, MaxTables), 0..MaxTableFault)
    \/ Returned

SpecTables == Init /\ [][NextTables]_vars

\* The cache key of a prepared statement, read off the statement.
CacheKeyOf(st) ==
    IF st.kind = "SELECT"
    THEN <<"select", st.table, st.columns \o <<"@", "columns">>>>
    ELSE <<IF Len(st.into) = 4 THEN "insert4" ELSE "insert5", st.table>>

IsHandle(s) == "stmt" \in DOMAIN s

\* C8: for one (operation, table, parameters) tuple the session returns one
\* handle ever: once the tuple is resolved, no later resolution issues a
\* prepare call for it, and every execution of it uses that handle.
C8_PreparedOnce ==
    [][/\ \A k \in DOMAIN prepared_statements :
             /\ k \in DOMAIN prepared_statements'
             /\ prepared_statements'[k] = prepared_statements[k]
       /\ \A k \in DOMAIN prepared_statements' :
             /\ k \in DOMAIN handles'
             /\ handles'[k] = 1
             /\ CacheKeyOf(prepared_statements'[k].stmt) = k
       /\ \A j \in DOMAIN last'.log :
             LET e == last'.log[j] IN
             /\ e.kind = "prepare" =>
                   CacheKeyOf(e.arg) \notin DOMAIN prepared_statements
             /\ (e.kind = "execute" /\ IsHandle(e.arg.statement)) =>
                   LET k == CacheKeyOf(e.arg.statement.stmt)
                   IN  /\ k \in DOMAIN prepared_statements'
                       /\ e.arg.statement = prepared_statements'[k]]_vars

\* A write and a read that executed cached handles without preparing.
C8_Witness ==
    /\ last.op \in {"online_write_batch", "online_read"}
    /\ last.err = None
    /\ \A j \in DOMAIN last.log : last.log[j].kind # "prepare"
    /\ \E j \in DOMAIN last.log :
          /\ last.log[j].kind = "execute"
          /\ IsHandle(last.log[j].arg.statement)
    /\ Cardinality(DOMAIN prepared_statements) >= 3

UpdateTable(l, table) ==
    fq_table_name(Get(l.args.config.online_store.keyspace),
                  l.args.config.project, table)

\* C9: creating the table of a view that has one raises no error and leaves
\* every table and row as it was; dropping the table of a view that has
\* none raises no error and leaves the table absent.
C9_CreateDropIdempotent ==
    [][/\ (/\ last'.op = "update"
           /\ last'.fault = 0
           /\ last'.args.tables_to_delete = << >>
           /\ \A i \in DOMAIN last'.args.tables_to_keep :
                 UpdateTable(last', last'.args.tables_to_keep[i]) \in DOMAIN db)
          => (last'.err = None /\ db' = db)
       /\ (/\ last'.op = "teardown"
           /\ last'.fault = 0
           /\ \A i \in DOMAIN last'.args.tables :
                 UpdateTable(last', last'.args.tables[i]) \notin DOMAIN db)
          => (last'.err = None /\ db' = db)]_vars

\* A table with a row in it was created again.
C9_Witness ==
    /\ last.op = "update"
    /\ last.err = None
    /\ last.args.tables_to_delete = << >>
    /\ Len(last.args.tables_to_keep) = 1
    /\ LET t == UpdateTable(last, last.args.tables_to_keep[1])
       IN  t \in DOMAIN db /\ DOMAIN db[t] # {}

UpdateDone == last.op = "update" /\ last.err = None

\* C15, as stated: after an update that returned normally every view to
\* keep has a table and no view to delete has one, whatever the two lists.
C15_KeepAndDelete ==
    UpdateDone =>
        /\ \A i \in DOMAIN last.args.tables_to_keep :
              UpdateTable(last, last.args.tables_to_keep[i]) \in DOMAIN db
        /\ \A i \in DOMAIN last.args.tables_to_delete :
              UpdateTable(last, last.args.tables_to_delete[i]) \notin DOMAIN db

\* C15, corrected: after an update that returned normally no view to delete
\* has a table, and every view to keep that is not also to delete has one:
\* the tables are created first and dropped afterwards.
C15_KeepUnlessDeleted ==
    UpdateDone =>
        /\ \A i \in DOMAIN last.args.tables_to_delete :
              UpdateTable(last, last.args.tables_to_delete[i]) \notin DOMAIN db
        /\ \A i \in DOMAIN last.args.tables_to_keep :
              last.args.tables_to_keep[i] \notin Range(last.args.tables_to_delete)
                  => UpdateTable(last, last.args.tables_to_keep[i]) \in DOMAIN db

\* An update that keeps fv1 and fv2 and deletes fv1: fv2 has a table and
\* fv1 has none.
C15_Witness ==
    /\ UpdateDone
    /\ last.args.tables_to_keep = <<FeatureView("fv1"), FeatureView("fv2")>>
    /\ last.args.tables_to_delete = <<FeatureView("fv1")>>
    /\ UpdateTable(last, FeatureView("fv2")) \in DOMAIN db
    /\ UpdateTable(last, FeatureView("fv1")) \notin DOMAIN db

(***************************************************************************)
(* SpecConfig: every operation under every configuration the fields'       *)
(* small domains give (unset, empty and set values; the expected class     *)
(* and another one), with and without work to do, and with a connect that  *)
(* may fail.                                                               *)
(***************************************************************************)
ConfigFault == 1   \* the driver call that may fail: the first of an operation

StoreConfigs ==
    {StoreConfig(class, hosts, secure_bundle_path, port, ks, username, password) :
        class \in {ConfigClass, "OtherOnlineStoreConfig"},
        hosts \in {None, Some(<< >>), Some(<<"h1">>)},
        secure_bundle_path \in {None, Some("b")},
        port \in {None, Some(9043)},
        ks \in {None, Some(""), Some("ks"), Some("k2")},
        username \in {None, Some("u")},
        password \in {None, Some("pw")}}

RepoConfigs == {RepoConfig("p", c) : c \in StoreConfigs}

NextConfig ==
    \/ WriteBatch(RepoConfigs, Tables, OneKeyBatches, {FALSE}, 0..ConfigFault)
    \/ OnlineRead(RepoConfigs, Tables, SeqsUpTo({[id |-> 1]}, 1), {None},
                  0..ConfigFault)
    \/ Update(RepoConfigs, TableLists, 0..ConfigFault)
    \/ Teardown(RepoConfigs, TableLists, 0..ConfigFault)
    \/ Returned

SpecConfig == Init /\ [][NextConfig]_vars

\* The operation has work to do, so it asks for the session: a batch, a key
\* list or a table list that is not empty.
UsesSession(l) ==
    CASE l.op = "online_write_batch" -> l.args.data # << >>
      [] l.op = "online_read" -> l.args.entity_keys # << >>
      [] l.op = "update" ->
             l.args.tables_to_keep # << >> \/ l.args.tables_to_delete # << >>
      [] l.op = "teardown" -> l.args.tables # << >>
      [] OTHER -> FALSE

StoreConfigOf(l) == l.args.config.online_store
ExpectedClass(l) == StoreConfigOf(l).class = ConfigClass

Missing(o) == o = None \/ Len(Get(o)) = 0
NoDirectionsOrKeyspace(c) ==
    (Missing(c.hosts) /\ Missing(c.secure_bundle_path)) \/ Missing(c.keyspace)
BothDirections(c) == ~Missing(c.hosts) /\ ~Missing(c.secure_bundle_path)
OneOfUserPassword(c) == (c.username = None) # (c.password = None)

\* The error the validation of a configuration of the expected class ends
\* with, the checks taken in the order the specification lists them.
ValidationError(c) ==
    IF NoDirectionsOrKeyspace(c) THEN Some(E_CASSANDRA_NOT_CONFIGURED)
    ELSE IF BothDirections(c) THEN Some(E_CASSANDRA_MISCONFIGURED)
    ELSE IF OneOfUserPassword(c) THEN Some(E_CASSANDRA_INCONSISTENT_AUTH)
    ELSE None

Called == last.op = "none" /\ last'.op # "none"

\* C6, as stated (in any state of the store instance), read in its most
\* favourable sense: the configuration is of the expected class, the
\* operation has work to do and the three cases are taken in the order of
\* the validation.  The statement without these provisos asks for more.
C6_ValidationInAnyState ==
    (last.op # "none" /\ UsesSession(last) /\ ExpectedClass(last)
         /\ ValidationError(StoreConfigOf(last)) # None)
        => last.err = ValidationError(StoreConfigOf(last))

\* C6, corrected: on a store instance that has no session yet, an operation
\* with work to do and a configuration of the expected class fails with
\* 'not configured' when both hosts and secure bundle path, or the keyspace,
\* are missing, else with 'misconfigured' when hosts and secure bundle path
\* are both set, else with 'inconsistent auth' when exactly one of username
\* and password is set; it has then made no call to the driver, built no
\* cluster and left the instance as it was.  Once the instance has a session, no operation fails with any of
\* the three.
C6_ValidationBeforeSession ==
    [][(Called /\ UsesSession(last') /\ ExpectedClass(last'))
           => /\ (session = None /\ ValidationError(StoreConfigOf(last')) # None)
                    => /\ last'.err = ValidationError(StoreConfigOf(last'))
                       /\ last'.log = << >>
                       /\ UNCHANGED <<cluster, session, keyspace>>
              /\ (session = None /\ ValidationError(StoreConfigOf(last')) = None)
                    => /\ last'.err \notin {Some(e) : e \in ConfigErrors}
                       /\ cluster' # None
              /\ session # None
                    => last'.err \notin {Some(e) : e \in ConfigErrors}]_vars

\* An operation was refused for a username without a password (or the other
\* way round) by an instance without a session.
C6_Witness ==
    /\ UsesSession(last)
    /\ last.err = Some(E_CASSANDRA_INCONSISTENT_AUTH)
    /\ OneOfUserPassword(StoreConfigOf(last))
    /\ session = None

SessionEvents(log) == SelectSeq(log, LAMBDA e : e.kind = "get_session")
Opened(log) == SelectSeq(log, LAMBDA e : e.kind = "connect" /\ e.ok)
Constructed(log) == SelectSeq(log, LAMBDA e : e.kind \in {"Cluster", "connect"})

\* C7: a session is opened only by an instance that has none, and one per
\* operation at most, so an instance opens one session ever; an instance
\* that has a session keeps it and its cluster, and every operation with
\* work to do and a configuration of the expected class, whatever its other
\* fields, is handed that session and constructs no cluster and no session;
\* a configuration of another class fails with 'unexpected config type'.
C7_OneSessionReused ==
    [][Called
         => /\ Len(Opened(last'.log)) <= 1
            /\ Len(Opened(last'.log)) = 1 => (session = None /\ session' # None)
            /\ session # None
                 => /\ session' = session
                    /\ cluster' = cluster
                    /\ keyspace' = keyspace
                    /\ Constructed(last'.log) = << >>
                    /\ \A i \in DOMAIN SessionEvents(last'.log) :
                           SessionEvents(last'.log)[i].arg = Get(session)
            /\ (session # None /\ UsesSession(last') /\ ExpectedClass(last'))
                 => /\ SessionEvents(last'.log) # << >>
                    /\ last'.err \notin {Some(e) : e \in ConfigErrors}
            /\ (UsesSession(last') /\ ~ExpectedClass(last'))
                 => /\ last'.err = Some(E_CASSANDRA_UNEXPECTED_CONFIGURATION_CLASS)
                    /\ last'.log = << >>
                    /\ UNCHANGED <<cluster, session, keyspace,
                                   prepared_statements, db>>]_vars

\* An instance with a session served, with that session, an operation whose
\* configuration would not have passed the validation and names another
\* keyspace than the session's.
C7_Witness ==
    /\ session # None
    /\ UsesSession(last) /\ ExpectedClass(last)
    /\ ValidationError(StoreConfigOf(last)) # None
    /\ StoreConfigOf(last).keyspace # Some(Get(session).keyspace)
    /\ last.err = None
    /\ SessionEvents(last.log) # << >>
    /\ Constructed(last.log) = << >>

\* The error a configuration is refused with by an instance without a
\* session: the class first, then the consistency checks.
Refusal(c) ==
    IF c.class # ConfigClass
    THEN Some(E_CASSANDRA_UNEXPECTED_CONFIGURATION_CLASS)
    ELSE ValidationError(c)

\* C12: on an instance without a session, an operation whose configuration
\* fails the validation raises the configuration error with no cluster and
\* no session constructed and no statement prepared or executed, and leaves
\* the instance as it was: no session, the same statement cache, the same
\* cluster and keyspace fields, the same tables.
C12_RefusalLeavesInstance ==
    [][(Called /\ session = None /\ Refusal(StoreConfigOf(last')) # None)
          => /\ UsesSession(last') => last'.err = Refusal(StoreConfigOf(last'))
             /\ last'.log = << >>
             /\ session' = None
             /\ prepared_statements' = prepared_statements
             /\ UNCHANGED <<cluster, keyspace, db, handles>>]_vars

\* A configuration naming a keyspace but neither hosts nor bundle, refused
\* by an instance that a failed connect had left with a cluster and a
\* keyspace of another name, and without a session.
C12_Witness ==
    /\ UsesSession(last) /\ ExpectedClass(last)
    /\ last.err = Some(E_CASSANDRA_NOT_CONFIGURED)
    /\ session = None
    /\ cluster # None
    /\ StoreConfigOf(last).keyspace # None
    /\ StoreConfigOf(last).keyspace # keyspace

(***************************************************************************)
(* SpecFrame: writes of any key and feature map into the tables of two     *)
(* feature views, which updates create and drop.                           *)
(***************************************************************************)
FrameBatch == 1    \* entries of a batch

FrameBatches ==
    SeqsUpTo(Entries(EntityKeys, Items(FeatureNames, Values, NumFeatures),
                     {1}, {None}), FrameBatch)

NextFrame ==
    \/ WriteBatch(Configs, TwoTables, FrameBatches, {FALSE}, {0})
    \/ Update(Configs, SeqsUpTo(TwoTables, 1), {0})
    \/ Returned

SpecFrame == Init /\ [][NextFrame]_vars

\* The primary keys a batch names: (K, f) for every entry of key K and
\* every feature f of its map.
BatchPks(data) ==
    UNION {{<<serialize_entity_key_hex(data[i][1]), data[i][2][j][1]>> :
               j \in DOMAIN data[i][2]} : i \in DOMAIN data}

\* C13: a write changes only the rows (K, f), f in M, its entries (K, M)
\* name, in the table of its feature view: every other row of that table
\* (other keys; other features of K) and every row of every other table is
\* as it was, no other row appears, and no table appears or disappears.
C13_WriteFrame ==
    [][(Called /\ IsWrite(last'))
          => /\ DOMAIN db' = DOMAIN db
             /\ \A t \in DOMAIN db :
                   \A pk \in DOMAIN db[t] \cup DOMAIN db'[t] :
                       (t # WriteTable(last') \/ pk \notin BatchPks(last'.args.data))
                           => /\ pk \in DOMAIN db[t]
                              /\ pk \in DOMAIN db'[t]
                              /\ db'[t][pk] = db[t][pk]]_vars

\* A write of feature a of key 1 into the table of fv1, which also holds
\* feature b of key 1 and a row of key 2, while the table of fv2 holds
\* feature a of key 1 with another value.
C13_Witness ==
    /\ IsWrite(last) /\ last.err = None
    /\ last.args.table = FeatureView("fv1")
    /\ Len(last.args.data) = 1
    /\ last.args.data[1][1] = [id |-> 1]
    /\ last.args.data[1][2] = <<(<<"a", [int64_val |-> 2]>>)>>
    /\ LET t1 == fq_table_name("ks", "p", FeatureView("fv1"))
           t2 == fq_table_name("ks", "p", FeatureView("fv2"))
           k1 == serialize_entity_key_hex([id |-> 1])
           k2 == serialize_entity_key_hex([id |-> 2])
       IN  /\ t1 \in DOMAIN db /\ t2 \in DOMAIN db
           /\ <<k1, "b">> \in DOMAIN db[t1]
           /\ \E f \in FeatureNames : <<k2, f>> \in DOMAIN db[t1]
           /\ <<k1, "a">> \in DOMAIN db[t2]
           /\ db[t2][<<k1, "a">>].value # db[t1][<<k1, "a">>].value

(***************************************************************************)
(* SpecConcurrent: threads calling one instance at the same time.  Each    *)
(* thread runs _get_session (lines 141-202) and then _get_cql_statement    *)
(* (lines 441-478) for a prepared operation on the table of fv1, one read  *)
(* or write of a field of the instance, or one call of the driver, at a    *)
(* step; the code takes no lock.                                           *)
(***************************************************************************)
ConcConfig == HostsConfig("p", "ks")
ConcOps == {"select", "insert4"}

\* The keyword arguments the operation is resolved with (lines 403-407).
ConcKwargs(op_name) ==
    IF op_name = "select"
    THEN <<(<<"columns", Join(", ", ReadProjection)>>)>>
    ELSE << >>

ConcTable(ks) == fq_table_name(ks, ConcConfig.project, FeatureView("fv1"))
ConcKey(op_name, ks) == CacheKey(op_name, ConcTable(ks), ConcKwargs(op_name))

\* The table of fv1 exists; the instance is as constructed.
InitConcurrent ==
    /\ other = NewInstance
    /\ callers = [c \in Callers |-> NotCalling]
    /\ cluster = None
    /\ session = None
    /\ keyspace = None
    /\ prepared_statements = EmptyMap
    /\ db = (ConcTable("ks") :> EmptyMap)
    /\ handles = EmptyMap
    /\ written = (View(ConcConfig, FeatureView("fv1")) :>
                     [maps |-> EmptyMap, rewritten |-> FALSE])
    /\ last = NoOp

At(c, pc) == callers[c].pc = pc
Goto(c, pc) == [callers EXCEPT ![c].pc = pc]
Shared == <<cluster, session, keyspace, prepared_statements, handles>>
Rest == <<db, written, last, other>>

\* A thread calls an operation that resolves op_name.
Call(c) ==
    /\ At(c, "start")
    /\ \E op_name \in ConcOps :
          callers' = [callers EXCEPT ![c].pc = "get_session",
                                     ![c].op_name = Some(op_name)]
    /\ UNCHANGED <<Shared, Rest>>

\* Lines 149-156: the class is the expected one; if self._session: return it.
CheckSession(c) ==
    /\ At(c, "get_session")
    /\ ConcConfig.online_store.class = ConfigClass
    /\ IF session # None
       THEN callers' = [callers EXCEPT ![c].pc = "lookup", ![c].session = session]
       ELSE callers' = Goto(c, "cluster")
    /\ UNCHANGED <<Shared, Rest>>

\* Lines 157-196: the configuration passes the checks; self._cluster =
\* Cluster(hosts, port=port, auth_provider=None), an object of its own (by:
\* the thread that made it).
ConstructCluster(c) ==
    /\ At(c, "cluster")
    /\ LET made == ("by" :> c) @@
                       NewCluster([hosts |-> Get(ConcConfig.online_store.hosts)],
                                  Some(DefaultPort), None)
       IN  /\ cluster' = Some(made)
           /\ callers' = [callers EXCEPT ![c].pc = "connect",
                                         ![c].constructed = Some(made)]
    /\ UNCHANGED <<session, keyspace, prepared_statements, handles, Rest>>

\* Lines 199-200, right-hand side: self._keyspace = keyspace, and the call
\* self._cluster.connect(self._keyspace), which returns a session of its own.
Connect(c) ==
    /\ At(c, "connect")
    /\ keyspace' = ConcConfig.online_store.keyspace
    /\ callers' = [callers EXCEPT
                      ![c].pc = "assign",
                      ![c].opened = Some([keyspace |-> Get(keyspace'),
                                          cluster |-> Get(cluster), by |-> c])]
    /\ UNCHANGED <<cluster, session, prepared_statements, handles, Rest>>

\* Line 200, left-hand side: self._session = the session connect returned.
AssignSession(c) ==
    /\ At(c, "assign")
    /\ session' = callers[c].opened
    /\ callers' = Goto(c, "return")
    /\ UNCHANGED <<cluster, keyspace, prepared_statements, handles, Rest>>

\* Line 202: return self._session.
ReturnSession(c) ==
    /\ At(c, "return")
    /\ callers' = [callers EXCEPT ![c].pc = "lookup", ![c].session = session]
    /\ UNCHANGED <<Shared, Rest>>

\* Lines 458 and 473: session = self._get_session(config), which finds the
\* session there; if cache_key not in self._prepared_statements.
Lookup(c) ==
    /\ At(c, "lookup")
    /\ callers' = [callers EXCEPT
                      ![c].pc = IF ConcKey(Get(callers[c].op_name), Get(keyspace))
                                       \in DOMAIN prepared_statements
                                THEN "cached" ELSE "prepare",
                      ![c].statement_session = session]
    /\ UNCHANGED <<Shared, Rest>>

\* Line 476: session.prepare(statement).
Prepare(c) ==
    /\ At(c, "prepare")
    /\ LET op_name == Get(callers[c].op_name)
           k == ConcKey(op_name, Get(keyspace))
           statement == RenderStatement(CQL_TEMPLATE_MAP[op_name][1],
                                        ConcTable(Get(keyspace)), ConcKwargs(op_name))
           n == IF k \in DOMAIN handles THEN handles[k] + 1 ELSE 1
       IN  /\ statement.table \in DOMAIN db
           /\ handles' = (k :> n) @@ handles
           /\ callers' = [callers EXCEPT
                             ![c].pc = "store",
                             ![c].prepared =
                                 Some([stmt |-> statement, serial |-> n,
                                       session |-> Get(callers[c].statement_session)])]
    /\ UNCHANGED <<cluster, session, keyspace, prepared_statements, Rest>>

\* Line 475: self._prepared_statements[cache_key] = the handle prepared.
Store(c) ==
    /\ At(c, "store")
    /\ prepared_statements' =
           (ConcKey(Get(callers[c].op_name), Get(keyspace)) :> Get(callers[c].prepared))
               @@ prepared_statements
    /\ callers' = Goto(c, "cached")
    /\ UNCHANGED <<cluster, session, keyspace, handles, Rest>>

\* Line 477: return self._prepared_statements[cache_key].
ReturnStatement(c) ==
    /\ At(c, "cached")
    /\ callers' = [callers EXCEPT
                      ![c].pc = "done",
                      ![c].statement = Some(prepared_statements[
                          ConcKey(Get(callers[c].op_name), Get(keyspace))])]
    /\ UNCHANGED <<Shared, Rest>>

NextConcurrent ==
    \E c \in Callers :
        \/ Call(c)
        \/ CheckSession(c)
        \/ ConstructCluster(c)
        \/ Connect(c)
        \/ AssignSession(c)
        \/ ReturnSession(c)
        \/ Lookup(c)
        \/ Prepare(c)
        \/ Store(c)
        \/ ReturnStatement(c)

SpecConcurrent == InitConcurrent /\ [][NextConcurrent]_vars

Constructing == {c \in Callers : callers[c].constructed # None}
Opening == {c \in Callers : callers[c].opened # None}

\* C16, as stated: of the threads that call an instance without a session
\* at the same time, one constructs a cluster and one opens a session, and
\* all of them are given that session.
C16_OneSessionForAll ==
    /\ Cardinality(Constructing) <= 1
    /\ Cardinality(Opening) <= 1
    /\ \A c1, c2 \in Callers :
          (callers[c1].session # None /\ callers[c2].session # None)
              => callers[c1].session = callers[c2].session

\* The threads that resolve the key of op_name.
Resolving(op_name) == {c \in Callers : callers[c].op_name = Some(op_name)}

\* C17, as stated, for an instance whose session was opened once: when the
\* threads that resolved one key have all finished, either one prepare call
\* was issued for the key, or the cache holds a handle for it that every
\* one of them was given.
C17_PrepareOnceOrConverge ==
    \A op_name \in ConcOps :
        (/\ Cardinality(Opening) <= 1
         /\ Resolving(op_name) # {}
         /\ \A c \in Callers : callers[c].pc = "done")
            => LET k == ConcKey(op_name, Get(keyspace)) IN
               \/ handles[k] = 1
               \/ \A c \in Resolving(op_name) :
                     callers[c].statement = Some(prepared_statements[k])

(***************************************************************************)
(* SpecInstances: two instances of the store in one process, on the same   *)
(* database through different contact points.  _prepared_statements is an  *)
(* attribute of the class (line 139) that no instance assigns: line 475    *)
(* stores into the dict of the class, which both instances read.  The      *)
(* variables cluster, session and keyspace are the fields of the first     *)
(* instance, other holds those of the second.                              *)
(***************************************************************************)
OtherConfig ==
    RepoConfig("p", StoreConfig(ConfigClass, Some(<<"h2">>), None, None,
                                Some("ks"), None, None))

\* The machine an operation of the second instance runs on.
OtherMachine(fault) ==
    [Machine(fault) EXCEPT !.cluster = other.cluster,
                           !.session = other.session,
                           !.keyspace = other.keyspace]

\* As Commit, for an operation of the second instance.
CommitOther(m, op, args) ==
    /\ last.op = "none"
    /\ FaultFired(m)
    /\ other' = [cluster |-> m.cluster, session |-> m.session,
                 keyspace |-> m.keyspace]
    /\ prepared_statements' = m.prepared_statements
    /\ db' = m.db
    /\ handles' = m.handles
    /\ last' = [op |-> op, args |-> args, fault |-> m.fault, err |-> m.err,
                ret |-> m.ret, log |-> m.log]
    /\ UNCHANGED <<cluster, session, keyspace, callers>>

OtherWriteBatch(configs, tables, batches, callbacks, faults) ==
    /\ last.op = "none"
    /\ \E config \in configs, table \in tables, data \in batches,
          progress \in callbacks, fault \in faults :
         \E m \in {online_write_batch(OtherMachine(fault), config, table, data, progress)} :
            /\ CommitOther(m, "online_write_batch",
                           [self |-> 2, config |-> config, table |-> table,
                            data |-> data, progress |-> progress])
            /\ written' = WrittenAfterWrite(written, View(config, table), data,
                                             m.log, m.err)

OtherOnlineRead(configs, tables, keyseqs, requests, faults) ==
    /\ last.op = "none"
    /\ \E config \in configs, table \in tables, entity_keys \in keyseqs,
          requested_features \in requests, fault \in faults :
         \E m \in {online_read(OtherMachine(fault), config, table, entity_keys, requested_features)} :
            /\ CommitOther(m, "online_read",
                           [self |-> 2, config |-> config, table |-> table,
                            entity_keys |-> entity_keys,
                            requested_features |-> requested_features])
            /\ UNCHANGED written

InstanceKeySeqs == SeqsUpTo(EntityKeys, 1)
InstanceRequests == {None, Some(<<"a">>)}

NextInstances ==
    \/ Update(Configs, TableLists, {0})
    \/ WriteBatch(Configs, Tables, FrameBatches, {FALSE}, {0})
    \/ OnlineRead(Configs, Tables, InstanceKeySeqs, InstanceRequests, {0})
    \/ OtherWriteBatch({OtherConfig}, Tables, FrameBatches, {FALSE}, {0})
    \/ OtherOnlineRead({OtherConfig}, Tables, InstanceKeySeqs, InstanceRequests, {0})
    \/ Returned

SpecInstances == Init /\ [][NextInstances]_vars

\* The handles the operation executed, and the statements it prepared.
ExecutedHandles(log) ==
    {log[i].arg.statement : i \in {j \in DOMAIN log :
        log[j].kind = "execute" /\ IsHandle(log[j].arg.statement)}}
PreparedIn(log) ==
    {log[i].arg : i \in {j \in DOMAIN log : log[j].kind = "prepare" /\ log[j].ok}}

\* C18: with two instances, every handle an operation resolves and executes
\* was prepared by the session of the instance the operation was called on,
\* and an operation of an instance that has resolved nothing yet (it opens
\* its session in this operation) prepares every statement it executes.
C18_CachePerInstance ==
    \A i \in DOMAIN SessionEvents(last.log) :
        \A h \in ExecutedHandles(last.log) :
            /\ h.session = SessionEvents(last.log)[i].arg
            /\ Opened(last.log) # << >> => h.stmt \in PreparedIn(last.log)

(***************************************************************************)
(* SpecProjects: two projects in one keyspace, with feature views whose    *)
(* names make line 344 produce the same text: "p" + "_" + "x_v" and        *)
(* "p_x" + "_" + "v".                                                      *)
(***************************************************************************)
ProjectConfigs == {HostsConfig("p", "ks"), HostsConfig("p_x", "ks")}
ProjectTables == {FeatureView("x_v"), FeatureView("v")}

\* One entry for entity key 1: feature a with either value.
ProjectBatches ==
    {<<e>> : e \in Entries({[id |-> 1]},
                           {<<<<"a", [int64_val |-> v]>>>> : v \in 1..2},
                           {1}, {None})}

NextProjects ==
    \/ Update(ProjectConfigs, SeqsUpTo(ProjectTables, 1), {0})
    \/ Teardown(ProjectConfigs, SeqsUpTo(ProjectTables, 1), {0})
    \/ WriteBatch(ProjectConfigs, ProjectTables, ProjectBatches, {FALSE}, {0})
    \/ OnlineRead(ProjectConfigs, ProjectTables, {<<[id |-> 1]>>}, {None}, {0})
    \/ Returned

SpecProjects == Init /\ [][NextProjects]_vars

\* The table of a feature view (project, name) in the instance's keyspace.
TableOfView(view) == fq_table_name(Get(keyspace), view[1], FeatureView(view[2]))

\* C19: different (project, feature view name) pairs have different tables,
\* and an operation on one of them leaves the table of the other alone: the
\* table of every feature view that was created and not dropped exists.
C19_TablePerView ==
    keyspace # None =>
        /\ \A v1, v2 \in DOMAIN written :
              v1 # v2 => TableOfView(v1) # TableOfView(v2)
        /\ \A v \in DOMAIN written : TableOfView(v) \in DOMAIN db

(***************************************************************************)
(* SpecKeyspaces: one instance called with valid configurations that       *)
(* differ in project and keyspace.  The table of a statement is built from *)
(* self._keyspace (lines 362-365, 403, 419, 434), which line 199 assigns   *)
(* when the session is opened and which line 155 bypasses afterwards.      *)
(***************************************************************************)
KeyspaceConfigs ==
    {HostsConfig(project, ks) : project \in {"p", "q"}, ks \in {"ks", "k2"}}

NextKeyspaces ==
    \/ Update(KeyspaceConfigs, TableLists, {0})
    \/ Teardown(KeyspaceConfigs, TableLists, {0})
    \/ WriteBatch(KeyspaceConfigs, Tables, ProjectBatches, {FALSE}, {0})
    \/ OnlineRead(KeyspaceConfigs, Tables, {<<[id |-> 1]>>}, {None}, {0})
    \/ Returned

SpecKeyspaces == Init /\ [][NextKeyspaces]_vars

\* The feature views an operation was called for.
TablesOf(l) ==
    CASE l.op \in {"online_write_batch", "online_read"} -> {l.args.table}
      [] l.op = "update" ->
             {l.args.tables_to_keep[i] : i \in DOMAIN l.args.tables_to_keep}
                 \cup {l.args.tables_to_delete[i] :
                          i \in DOMAIN l.args.tables_to_delete}
      [] l.op = "teardown" -> {l.args.tables[i] : i \in DOMAIN l.args.tables}
      [] OTHER -> {}

\* The tables named by the statements the operation prepared or executed.
Addressed(log) ==
    {Statement(log[i].arg.statement).table :
        i \in {j \in DOMAIN log : log[j].kind = "execute"}}
    \cup {log[i].arg.table : i \in {j \in DOMAIN log : log[j].kind = "prepare"}}

\* C20: every statement of an operation names a table of the keyspace and
\* the project of the configuration the operation was called with.
C20_TablesOfCallConfig ==
    last.op # "none" =>
        Addressed(last.log) \subseteq
            {fq_table_name(Get(last.args.config.online_store.keyspace),
                           last.args.config.project, t) : t \in TablesOf(last)}

====
